---- MODULE Spec2Model ----
(***************************************************************************)
(* Model of the metadata-dictionary generation pipeline of                 *)
(* create_metadata_dictionary.ipynb: get_diverse_terms, generate_prompt,   *)
(* extract_json, process_field, process_index and                          *)
(* generate_metadata_dictionary.                                           *)
(*                                                                         *)
(* Text is a sequence of one-character strings.  A JSON value is a record  *)
(* [t, s, m]: a string (t = "str", s its characters) or an object          *)
(* (t = "obj", m the sequence of <<key, value>> pairs in insertion order,  *)
(* the order of a Python dict).                                            *)
(***************************************************************************)
EXTENDS Integers, Sequences, FiniteSets, Bags, TLC

----------------------------------------------------------------------------
(* Characters and JSON values *)

QUOTE == "\""

BSLASH == "\\"

NL == "\n"

SP == " "

\* json whitespace (of the characters the model uses)
WS == {SP, NL}

JStr(s) == [t |-> "str", s |-> s, m |-> <<>>]

JObj(m) == [t |-> "obj", s |-> <<>>, m |-> m]

\* dict.keys()
Keys(o) == {o.m[i][1] : i \in 1..Len(o.m)}

\* dict.__contains__
HasKey(o, k) == k \in Keys(o)

\* dict.__getitem__ (the key is present)
Get(o, k) == o.m[CHOOSE i \in 1..Len(o.m) : o.m[i][1] = k][2]

\* dict.__setitem__: an existing key keeps its position, a new key is appended
DictSet(m, k, v) ==
  IF \E i \in 1..Len(m) : m[i][1] = k
  THEN [i \in 1..Len(m) |-> IF m[i][1] = k THEN <<k, v>> ELSE m[i]]
  ELSE Append(m, <<k, v>>)

\* Python equality of parsed values: dicts compare as mappings, whatever the
\* insertion order
RECURSIVE JsonEq(_, _)
JsonEq(a, b) ==
  IF a.t # b.t THEN FALSE
  ELSE IF a.t = "str" THEN a.s = b.s
  ELSE /\ Keys(a) = Keys(b)
       /\ \A k \in Keys(a) : JsonEq(Get(a, k), Get(b, k))

----------------------------------------------------------------------------
(* json.dumps *)

RECURSIVE Flatten(_)
Flatten(ss) == IF ss = <<>> THEN <<>> ELSE Head(ss) \o Flatten(Tail(ss))

\* py_encode_basestring_ascii, on the characters the model uses
EscapeChar(c) ==
  IF c = QUOTE THEN <<BSLASH, QUOTE>>
  ELSE IF c = BSLASH THEN <<BSLASH, BSLASH>>
  ELSE IF c = NL THEN <<BSLASH, "n">>
  ELSE <<c>>

EncodeString(s) ==
  <<QUOTE>> \o Flatten([i \in 1..Len(s) |-> EscapeChar(s[i])]) \o <<QUOTE>>

Spaces(n) == [i \in 1..n |-> SP]

\* json.dumps(v, indent=indent): indent = 0 stands for indent=None (items
\* separated by ", "), indent > 0 puts every item on a line of its own
RECURSIVE Encode(_, _, _)
Encode(v, indent, level) ==
  IF v.t = "str" THEN EncodeString(v.s)
  ELSE IF v.m = <<>> THEN <<"{", "}">>
  ELSE LET item(i) == EncodeString(v.m[i][1]) \o <<":", SP>>
                        \o Encode(v.m[i][2], indent, level + 1)
           sep == IF indent = 0 THEN <<",", SP>>
                  ELSE <<",", NL>> \o Spaces(indent * (level + 1))
           open == IF indent = 0 THEN <<"{">>
                   ELSE <<"{", NL>> \o Spaces(indent * (level + 1))
           close == IF indent = 0 THEN <<"}">>
                    ELSE <<NL>> \o Spaces(indent * level) \o <<"}">>
       IN open
          \o Flatten([i \in 1..Len(v.m) |->
                        IF i = 1 THEN item(i) ELSE sep \o item(i)])
          \o close

json_dumps(v, indent) == Encode(v, indent, 0)

\* json.dumps(records, indent=indent) of a list of objects, indent > 0
json_dumps_list(records, indent) ==
  IF records = <<>> THEN <<"[", "]">>
  ELSE <<"[", NL>> \o Spaces(indent)
       \o Flatten([p \in 1..Len(records) |->
                     IF p = 1 THEN Encode(records[p], indent, 1)
                     ELSE <<",", NL>> \o Spaces(indent)
                          \o Encode(records[p], indent, 1)])
       \o <<NL, "]">>

----------------------------------------------------------------------------
(* json.loads: a result is [ok, val, pos], pos the index after the value *)

Fail == [ok |-> FALSE, val |-> JStr(<<>>), pos |-> 0]

Ok(v, p) == [ok |-> TRUE, val |-> v, pos |-> p]

RECURSIVE SkipWs(_, _)
SkipWs(txt, i) ==
  IF i <= Len(txt) /\ txt[i] \in WS THEN SkipWs(txt, i + 1) ELSE i

At(txt, i, c) == i <= Len(txt) /\ txt[i] = c

\* py_scanstring (strict): i is the index after the opening quote
RECURSIVE ScanString(_, _, _)
ScanString(txt, i, acc) ==
  IF i > Len(txt) THEN Fail
  ELSE IF txt[i] = QUOTE THEN Ok(JStr(acc), i + 1)
  ELSE IF txt[i] = NL THEN Fail
  ELSE IF txt[i] = BSLASH
    THEN IF i + 1 > Len(txt) THEN Fail
         ELSE IF txt[i + 1] \in {QUOTE, BSLASH, "/"}
           THEN ScanString(txt, i + 2, Append(acc, txt[i + 1]))
         ELSE IF txt[i + 1] = "n"
           THEN ScanString(txt, i + 2, Append(acc, NL))
         ELSE Fail
  ELSE ScanString(txt, i + 1, Append(acc, txt[i]))

RECURSIVE ScanValue(_, _)
RECURSIVE ScanMembers(_, _, _)

\* JSONObject: i is the index after the opening brace
ScanObject(txt, i) ==
  LET j == SkipWs(txt, i)
  IN IF At(txt, j, "}") THEN Ok(JObj(<<>>), j + 1)
     ELSE ScanMembers(txt, j, <<>>)

\* one "key": value pair at i, then "," and the next pair, or "}"
ScanMembers(txt, i, acc) ==
  IF ~At(txt, i, QUOTE) THEN Fail
  ELSE LET k == ScanString(txt, i + 1, <<>>)
       IN IF ~k.ok THEN Fail
          ELSE LET c == SkipWs(txt, k.pos)
               IN IF ~At(txt, c, ":") THEN Fail
                  ELSE LET v == ScanValue(txt, SkipWs(txt, c + 1))
                       IN IF ~v.ok THEN Fail
                          ELSE LET e == SkipWs(txt, v.pos)
                                   m2 == DictSet(acc, k.val.s, v.val)
                               IN IF At(txt, e, "}") THEN Ok(JObj(m2), e + 1)
                                  ELSE IF At(txt, e, ",")
                                    THEN ScanMembers(txt, SkipWs(txt, e + 1), m2)
                                  ELSE Fail

\* scan_once, for the values the model's characters can spell
ScanValue(txt, i) ==
  IF At(txt, i, QUOTE) THEN ScanString(txt, i + 1, <<>>)
  ELSE IF At(txt, i, "{") THEN ScanObject(txt, i + 1)
  ELSE Fail

\* json.loads: one value, surrounded by optional whitespace, and nothing else
json_loads(txt) ==
  LET v == ScanValue(txt, SkipWs(txt, 1))
  IN IF v.ok /\ SkipWs(txt, v.pos) = Len(txt) + 1 THEN v ELSE Fail

----------------------------------------------------------------------------
(* extract_json *)

\* "." of the pattern: any character but a newline
RegexDot(c) == c # NL

\* "(?:.|\n)" of the pattern
RegexAnyNoNewline(c) == RegexDot(c)

RegexAny(c) == RegexDot(c) \/ c = NL

\* re.search(r"(\{(?:.|\n)*\})", text): the leftmost "{" from which a match
\* exists, and from it the longest match; <<0, 0>> when there is none
RECURSIVE RunEnd(_, _)
RunEnd(txt, i) ==
  IF i <= Len(txt) /\ RegexAny(txt[i]) THEN RunEnd(txt, i + 1) ELSE i

\* the ends of the matches that start at s: a "}" that only characters of
\* (?:.|\n) separate from s
MatchEnds(txt, s) ==
  LET limit == RunEnd(txt, s + 1)
  IN {e \in (s + 1)..limit : e <= Len(txt) /\ txt[e] = "}"}

Max(S) == CHOOSE x \in S : \A y \in S : y <= x

Min(S) == CHOOSE x \in S : \A y \in S : x <= y

re_search_shortest(txt) ==
  LET starts == {s \in 1..Len(txt) : txt[s] = "{" /\ MatchEnds(txt, s) # {}}
  IN IF starts = {} THEN <<0, 0>>
     ELSE <<Min(starts), Min(MatchEnds(txt, Min(starts)))>>

re_search(txt) ==
  LET starts == {s \in 1..Len(txt) : txt[s] = "{" /\ MatchEnds(txt, s) # {}}
  IN IF starts = {} THEN <<0, 0>>
     ELSE <<Min(starts), Max(MatchEnds(txt, Min(starts)))>>

\* extract_json: the parsed object, or the ValueError it raises
extract_json(txt) ==
  LET span == re_search(txt)
  IN IF span # <<0, 0>>
     THEN LET r == json_loads(SubSeq(txt, span[1], span[2]))
          IN IF r.ok
             THEN [raised |-> "", val |-> r.val]
             ELSE [raised |-> "Error parsing JSON", val |-> JStr(<<>>)]
     ELSE [raised |-> "No JSON object found in the text.", val |-> JStr(<<>>)]

----------------------------------------------------------------------------
(* Names and values of the model's inputs *)

FIELD_NAME == <<"f", "i", "e", "l", "d", "_", "n", "a", "m", "e">>

INDEX_NAME == <<"i", "n", "d", "e", "x", "_", "n", "a", "m", "e">>

DATA_TYPE == <<"d", "a", "t", "a", "_", "t", "y", "p", "e">>

NATURAL_LANGUAGE_DESCRIPTION ==
  <<"n", "a", "t", "u", "r", "a", "l", "_", "l", "a", "n", "g", "u", "a", "g",
    "e", "_", "d", "e", "s", "c", "r", "i", "p", "t", "i", "o", "n">>

SAMPLE_VALUE == <<"s", "a", "m", "p", "l", "e", "_", "v", "a", "l", "u", "e">>

TEXT == <<"t", "e", "x", "t">>

KEYWORD == <<"k", "e", "y", "w", "o", "r", "d">>

LONG == <<"l", "o", "n", "g">>

UNKNOWN == <<"u", "n", "k", "n", "o", "w", "n">>

Division == <<"D", "i", "v">>

Male == <<"M">>

Female == <<"F">>

----------------------------------------------------------------------------
(* get_fields *)

\* get_fields: one {field_name, data_type} per property of the mapping, in the
\* mapping's order; a property without a 'type' gets 'unknown'.  A property
\* is [field, type], type = <<>> when the mapping has none.
get_fields(properties) ==
  [j \in 1..Len(properties) |->
     [field_name |-> properties[j].field,
      data_type |-> IF properties[j].type = <<>> THEN UNKNOWN
                    ELSE properties[j].type]]

----------------------------------------------------------------------------
(* get_diverse_terms *)

AggFieldAlways(field, data_type) == field \o <<".">> \o KEYWORD

\* agg_field = field + ".keyword" if data_type == "text" else field
AggField(field, data_type) ==
  IF data_type = TEXT THEN field \o <<".">> \o KEYWORD ELSE field

\* the body of the search request: the field each aggregation targets
Query(field, data_type, size) ==
  LET agg_field == AggField(field, data_type)
  IN [frequent_terms |-> [field |-> agg_field, size |-> size],
      rare_terms |-> [field |-> agg_field, max_doc_count |-> 5],
      significant_terms |-> [field |-> agg_field, size |-> size],
      unique_count |-> [field |-> agg_field],
      sample_docs |-> [size |-> 3]]

NoQuery == Query(<<>>, <<>>, 0)

\* get_diverse_terms returns the bucket keys of the response verbatim; the
\* model's response already is the three lists of keys (unique_count and
\* sample_docs are returned too and read by no caller)
get_diverse_terms(response) ==
  [frequent_terms |-> response.frequent_terms,
   rare_terms |-> response.rare_terms,
   significant_terms |-> response.significant_terms]

----------------------------------------------------------------------------
(* process_field *)

Range(seq) == {seq[i] : i \in 1..Len(seq)}

\* the lists list(set(seq)) can be: the distinct elements of seq, each once,
\* in the set's iteration order, which the program does not control
PyListOfSetKeepsDuplicates(seq) == {seq}

PyListOfSet(seq) ==
  LET n == Cardinality(Range(seq))
  IN {l \in [1..n -> Range(seq)] : \A a, b \in 1..n : a # b => l[a] # l[b]}

SliceOffByOne(seq, n) == SubSeq(seq, 1, IF n + 1 < Len(seq) THEN n + 1 ELSE Len(seq))

\* seq[:n]
Slice(seq, n) ==
  IF n >= 0 THEN SubSeq(seq, 1, IF n < Len(seq) THEN n ELSE Len(seq))
  ELSE SubSeq(seq, 1, IF Len(seq) + n > 0 THEN Len(seq) + n ELSE 0)

\* the values combined_samples can take:
\* list(set(frequent + rare + significant))[:threshold]
CombinedSamples(terms, threshold) ==
  {Slice(l, threshold) :
     l \in PyListOfSet(terms.frequent_terms \o terms.rare_terms
                        \o terms.significant_terms)}

\* ', '.join(map(str, samples))
RECURSIVE Join(_)
Join(samples) ==
  IF samples = <<>> THEN <<>>
  ELSE IF Len(samples) = 1 THEN samples[1]
  ELSE samples[1] \o <<",", SP>> \o Join(Tail(samples))

\* generate_prompt: the fixed template with its four slots filled
generate_prompt(index, field, data_type, samples) ==
  [index |-> index, field |-> field, data_type |-> data_type,
   samples |-> Join(samples)]

NoPrompt == generate_prompt(<<>>, <<>>, <<>>, <<>>)

RECURSIVE LStrip(_)
LStrip(txt) ==
  IF txt # <<>> /\ Head(txt) \in WS THEN LStrip(Tail(txt)) ELSE txt

RECURSIVE RStrip(_)
RStrip(txt) ==
  IF txt # <<>> /\ txt[Len(txt)] \in WS
  THEN RStrip(SubSeq(txt, 1, Len(txt) - 1)) ELSE txt

\* str.strip()
Strip(txt) == RStrip(LStrip(txt))

FallbackWithoutSample(index, field, data_type, llm_text, combined_samples) ==
  JObj(<< <<FIELD_NAME, JStr(field)>>,
          <<INDEX_NAME, JStr(index)>>,
          <<DATA_TYPE, JStr(data_type)>>,
          <<NATURAL_LANGUAGE_DESCRIPTION, JStr(llm_text)>>,
          <<SAMPLE_VALUE, JStr(<<>>)>> >>)

\* the dict built in the except branch of process_field
Fallback(index, field, data_type, llm_text, combined_samples) ==
  JObj(<< <<FIELD_NAME, JStr(field)>>,
          <<INDEX_NAME, JStr(index)>>,
          <<DATA_TYPE, JStr(data_type)>>,
          <<NATURAL_LANGUAGE_DESCRIPTION, JStr(llm_text)>>,
          <<SAMPLE_VALUE, JStr(IF combined_samples # <<>>
                               THEN combined_samples[1] ELSE <<>>)>> >>)

NoResult == JStr(<<>>)

\* extract_json not called yet
NoExtract == [raised |-> "", val |-> NoResult]

ResultOrRaiseNoExcept(index, field, data_type, llm_text, combined_samples) ==
  LET r == extract_json(llm_text)
  IN IF r.raised = "" THEN [raised |-> "", val |-> r.val]
     ELSE [raised |-> "ValueError", val |-> NoResult]

ResultOrRaiseOverwritten(index, field, data_type, llm_text, combined_samples) ==
  LET r == extract_json(llm_text)
  IN IF r.raised = ""
     THEN [raised |-> "",
           val |-> JObj(DictSet(DictSet(DictSet(r.val.m,
                     FIELD_NAME, JStr(field)),
                     INDEX_NAME, JStr(index)),
                     DATA_TYPE, JStr(data_type)))]
     ELSE [raised |-> "",
           val |-> Fallback(index, field, data_type, llm_text,
                            combined_samples)]

\* try: extract_json(llm_text)  except ValueError: the fallback dict
ResultOrRaise(index, field, data_type, llm_text, combined_samples) ==
  LET r == extract_json(llm_text)
  IN IF r.raised = "" THEN [raised |-> "", val |-> r.val]
     ELSE [raised |-> "",
           val |-> Fallback(index, field, data_type, llm_text,
                            combined_samples)]

\* One unit of work: a call of process_field.  st is where the call stands:
\* "queued" (submitted, not started), "started" (before get_diverse_terms),
\* "sampled" (before generate_text), "finished" (returned, or raised when
\* raised # "").  calls lists the external calls made so far, extract is
\* what the call of extract_json gave, rank says as which of the futures of
\* its index the future of the unit was set to finished (0: not yet).
NewUnit(field_detail) ==
  [st |-> "queued", field_detail |-> field_detail, query |-> NoQuery,
   combined_samples |-> <<>>, prompt |-> NoPrompt, llm_raw |-> <<>>,
   llm_text |-> <<>>, extract |-> NoExtract, result |-> NoResult,
   raised |-> "", calls |-> <<>>, rank |-> 0]

\* lines 379-387: es.search answers with response, the set is listed as
\* combined_samples
Sampled(u, index, threshold, combined_samples) ==
  [u EXCEPT !.st = "sampled",
            !.query = Query(u.field_detail.field_name,
                            u.field_detail.data_type, threshold),
            !.combined_samples = combined_samples,
            !.prompt = generate_prompt(index, u.field_detail.field_name,
                                       u.field_detail.data_type,
                                       combined_samples),
            !.calls = Append(u.calls, "search")]

SearchRaisedPlaceholder(u, threshold) ==
  [u EXCEPT !.st = "finished",
            !.query = Query(u.field_detail.field_name,
                            u.field_detail.data_type, threshold),
            !.result = Fallback(<<>>, u.field_detail.field_name,
                                u.field_detail.data_type, <<>>, <<>>),
            !.calls = Append(u.calls, "search")]

\* line 381 when es.search raises: the error leaves process_field
SearchRaised(u, threshold) ==
  [u EXCEPT !.st = "finished",
            !.query = Query(u.field_detail.field_name,
                            u.field_detail.data_type, threshold),
            !.raised = "elasticsearch",
            !.calls = Append(u.calls, "search")]

GeneratedWithRetry(u, index, llm_raw) ==
  LET llm_text == Strip(llm_raw)
      r == ResultOrRaise(index, u.field_detail.field_name,
                         u.field_detail.data_type, llm_text,
                         u.combined_samples)
      again == IF extract_json(llm_text).raised = "" THEN <<>>
               ELSE <<"generate_text">>
  IN [u EXCEPT !.st = "finished",
               !.llm_raw = llm_raw,
               !.llm_text = llm_text,
               !.extract = extract_json(llm_text),
               !.result = r.val,
               !.raised = r.raised,
               !.calls = Append(u.calls, "generate_text") \o again]

\* lines 388-401: generate_text answers with llm_raw
Generated(u, index, llm_raw) ==
  LET llm_text == Strip(llm_raw)
      r == ResultOrRaise(index, u.field_detail.field_name,
                         u.field_detail.data_type, llm_text,
                         u.combined_samples)
  IN [u EXCEPT !.st = "finished",
               !.llm_raw = llm_raw,
               !.llm_text = llm_text,
               !.extract = extract_json(llm_text),
               !.result = r.val,
               !.raised = r.raised,
               !.calls = Append(u.calls, "generate_text")]

\* line 388 when generate_text raises
GenerateRaised(u) ==
  [u EXCEPT !.st = "finished",
            !.raised = "watsonx",
            !.calls = Append(u.calls, "generate_text")]

----------------------------------------------------------------------------
(* Bounds and input sets *)

\* longest string inside a JSON object of the round trip
MaxStrLen == 1

\* most members of a JSON object of the round trip
MaxMembers == 2

\* longest frequent_terms list of a response
MaxTerms == 2

\* longest prose before and after the core of a generated text
MaxAffix == 1

\* threshold: int = 20
threshold_default == 20

SeqsUpTo(S, n) == UNION {[1..k -> S] : k \in 0..n}

StrAlphabet == {"a", "}", QUOTE, BSLASH, NL}

Strings == SeqsUpTo(StrAlphabet, MaxStrLen)

MemberKeys == {<<"a">>, <<"}", QUOTE>>}

DistinctKeys(m) == \A a, b \in 1..Len(m) : a # b => m[a][1] # m[b][1]

\* objects whose values are strings
FlatObjects ==
  {JObj(m) : m \in {l \in SeqsUpTo(MemberKeys \X {JStr(s) : s \in Strings}, 1) :
                      DistinctKeys(l)}}

\* the JSON objects x of the round trip: values are strings or flat objects
JsonObjects ==
  {JObj(m) :
     m \in {l \in SeqsUpTo(MemberKeys \X ({JStr(s) : s \in Strings}
                                           \cup FlatObjects), MaxMembers) :
              DistinctKeys(l)}}

\* indent=None and indent=1
Indents == {0, 1}

----------------------------------------------------------------------------
(* Round trip json.dumps / extract_json *)

VARIABLES rt

VARIABLES pf_in, pf

VARIABLES poolSize, pc, indices, i, fields_info, units, queue, first, pending,
          waiter, metadata, metadata_dict, exc, file

VARIABLES qa

fieldVars == <<pf_in, pf>>

pipeVars == <<poolSize, pc, indices, i, fields_info, units, queue, first,
              pending, waiter, metadata, metadata_dict, exc, file>>

vars == <<rt, pf_in, pf, poolSize, pc, indices, i, fields_info, units, queue,
          first, pending, waiter, metadata, metadata_dict, exc, file, qa>>

\* the round trip of one object: x, its text, the object extracted from
\* it, the text of that object and the object extracted from that text
RtInit ==
  rt \in {[pc |-> "x", x |-> o, indent |-> ind, text |-> <<>>,
           obj |-> extract_json(<<>>), text2 |-> <<>>,
           obj2 |-> extract_json(<<>>)] : o \in JsonObjects, ind \in Indents}

RtIdle ==
  rt = [pc |-> "idle", x |-> JObj(<<>>), indent |-> 0, text |-> <<>>,
        obj |-> extract_json(<<>>), text2 |-> <<>>, obj2 |-> extract_json(<<>>)]

Dumps ==
  /\ rt.pc = "x"
  /\ rt' = [rt EXCEPT !.pc = "text", !.text = json_dumps(rt.x, rt.indent)]
  /\ UNCHANGED <<fieldVars, pipeVars, qa>>

Extract ==
  /\ rt.pc = "text"
  /\ rt' = [rt EXCEPT !.pc = "obj", !.obj = extract_json(rt.text)]
  /\ UNCHANGED <<fieldVars, pipeVars, qa>>

DumpsAgain ==
  /\ rt.pc = "obj"
  /\ rt.obj.raised = ""
  /\ rt' = [rt EXCEPT !.pc = "text2",
                      !.text2 = json_dumps(rt.obj.val, rt.indent)]
  /\ UNCHANGED <<fieldVars, pipeVars, qa>>

ExtractAgain ==
  /\ rt.pc = "text2"
  /\ rt' = [rt EXCEPT !.pc = "obj2", !.obj2 = extract_json(rt.text2)]
  /\ UNCHANGED <<fieldVars, pipeVars, qa>>

----------------------------------------------------------------------------
(* process_field on one field *)

Other == <<"X">>

TermValues == {Male, Female, Other}

\* what es.search can answer: the bucket keys of the three term aggregations
Responses ==
  [frequent_terms : SeqsUpTo(TermValues, MaxTerms),
   rare_terms : SeqsUpTo(TermValues, 1),
   significant_terms : SeqsUpTo(TermValues, 1)]

NoTerms ==
  [frequent_terms |-> <<>>, rare_terms |-> <<>>, significant_terms |-> <<>>]

GenderTerms ==
  [frequent_terms |-> <<Male, Female>>, rare_terms |-> <<>>,
   significant_terms |-> <<Male>>]

Thresholds == {0, 1, MaxTerms, threshold_default}

DataTypes == {TEXT, KEYWORD, LONG, UNKNOWN}

\* the object the prompt asks for
Echo(index, field_detail) ==
  JObj(<< <<FIELD_NAME, JStr(field_detail.field_name)>>,
          <<INDEX_NAME, JStr(index)>>,
          <<DATA_TYPE, JStr(field_detail.data_type)>>,
          <<NATURAL_LANGUAGE_DESCRIPTION, JStr(<<"a">>)>>,
          <<SAMPLE_VALUE, JStr(Male)>> >>)

\* an object that names another field
WrongEcho(index, field_detail) ==
  JObj(<< <<FIELD_NAME, JStr(Other)>>,
          <<INDEX_NAME, JStr(index)>>,
          <<DATA_TYPE, JStr(field_detail.data_type)>>,
          <<NATURAL_LANGUAGE_DESCRIPTION, JStr(<<"a", "}">>)>>,
          <<SAMPLE_VALUE, JStr(Male)>> >>)

Prose == <<"a">>

BrokenSpan == <<"{", "a", "}">>

Affixes == SeqsUpTo({"a", SP, NL, "{", "}"}, MaxAffix)

\* what generate_text can answer for a field: prose, an object, a broken
\* object, each with prose or whitespace before and after
Cores(index, field_detail) ==
  {<<>>, Prose, BrokenSpan, <<"{", "}">>,
   json_dumps(Echo(index, field_detail), 0),
   json_dumps(Echo(index, field_detail), 1),
   json_dumps(WrongEcho(index, field_detail), 0)}

RawOutputs(index, field_detail) ==
  {pre \o core \o post :
     pre \in Affixes, core \in Cores(index, field_detail), post \in Affixes}

I1 == <<"i", "1">>

\* the inputs of one call: the arguments, and what the two services answer
FieldInputs ==
  {[index |-> I1, field_detail |-> [field_name |-> Division, data_type |-> dt],
    threshold |-> th, response |-> r, llm_raw |-> Prose] :
     dt \in DataTypes, th \in Thresholds, r \in Responses}
  \cup
  {[index |-> I1, field_detail |-> fd, threshold |-> th, response |-> r,
    llm_raw |-> raw] :
     fd \in {[field_name |-> Division, data_type |-> KEYWORD]},
     th \in {0, threshold_default}, r \in {NoTerms, GenderTerms},
     raw \in RawOutputs(I1, [field_name |-> Division, data_type |-> KEYWORD])}

NoField == [field_name |-> <<>>, data_type |-> <<>>]

Started(field_detail) == [NewUnit(field_detail) EXCEPT !.st = "started"]

PfInit ==
  /\ pf_in \in FieldInputs
  /\ pf = Started(pf_in.field_detail)

PfIdle ==
  /\ pf_in = [index |-> <<>>, field_detail |-> NoField, threshold |-> 0,
              response |-> NoTerms, llm_raw |-> <<>>]
  /\ pf = NewUnit(NoField)

FieldSearch ==
  /\ pf.st = "started"
  /\ \E cs \in CombinedSamples(get_diverse_terms(pf_in.response),
                               pf_in.threshold) :
       pf' = Sampled(pf, pf_in.index, pf_in.threshold, cs)
  /\ UNCHANGED <<pf_in, rt, pipeVars, qa>>

FieldSearchRaise ==
  /\ pf.st = "started"
  /\ pf' = SearchRaised(pf, pf_in.threshold)
  /\ UNCHANGED <<pf_in, rt, pipeVars, qa>>

FieldGenerate ==
  /\ pf.st = "sampled"
  /\ pf' = Generated(pf, pf_in.index, pf_in.llm_raw)
  /\ UNCHANGED <<pf_in, rt, pipeVars, qa>>

FieldGenerateRaise ==
  /\ pf.st = "sampled"
  /\ pf' = GenerateRaised(pf)
  /\ UNCHANGED <<pf_in, rt, pipeVars, qa>>

----------------------------------------------------------------------------
(* process_index and generate_metadata_dictionary *)

\* most indices get_indices returns
MaxIndices == 2

\* most fields of all the indices together
MaxFields == 2

\* ThreadPoolExecutor(max_workers=10)
max_workers == 10

PoolSizes == {1, max_workers}

Digits == <<"0", "1", "2", "3", "4", "5", "6", "7", "8", "9">>

IndexName(k) == <<"i", Digits[k + 1]>>

FieldName(j) == <<"f", Digits[j + 1]>>

TypeCycle == <<TEXT, KEYWORD, <<>> >>

\* the mapping of an index with n fields
Properties(n) ==
  [j \in 1..n |-> [field |-> FieldName(j), type |-> TypeCycle[((j - 1) % 3) + 1]]]

\* what es.search answers during a run
PipeResponses == {NoTerms}

\* what generate_text answers during a run: no braces, a span that does not
\* parse, the object asked for, an object naming another field
PipeOutputs(index, field_detail) ==
  {Prose, BrokenSpan, json_dumps(Echo(index, field_detail), 0),
   json_dumps(WrongEcho(index, field_detail), 0)}

\* the records of a previous run
OldRecords == <<Fallback(I1, Other, KEYWORD, Prose, <<>>)>>

\* the document a previous run left at the path
OldDocument == json_dumps_list(OldRecords, 4)

PipeInit ==
  /\ poolSize \in PoolSizes
  /\ pc = "get_indices"
  /\ indices = <<>>
  /\ i = 0
  /\ fields_info = <<>>
  /\ units = [k \in 1..MaxIndices |-> <<>>]
  /\ queue = [k \in 1..MaxIndices |-> <<>>]
  /\ first = {}
  /\ pending = {}
  /\ waiter = <<>>
  /\ metadata = <<>>
  /\ metadata_dict = <<>>
  /\ exc = ""
  /\ file = OldDocument

PipeIdle ==
  /\ poolSize = max_workers
  /\ pc = "idle"
  /\ indices = <<>>
  /\ i = 0
  /\ fields_info = <<>>
  /\ units = [k \in 1..MaxIndices |-> <<>>]
  /\ queue = [k \in 1..MaxIndices |-> <<>>]
  /\ first = {}
  /\ pending = {}
  /\ waiter = <<>>
  /\ metadata = <<>>
  /\ metadata_dict = <<>>
  /\ exc = ""
  /\ file = OldDocument

RECURSIVE SumLen(_, _)
SumLen(f, n) == IF n = 0 THEN 0 ELSE Len(f[n]) + SumLen(f, n - 1)

\* fields of the indices processed so far
FieldsSoFar == SumLen(units, MaxIndices)

UnitIds(k) == 1..Len(units[k])

Finished(k) == {j \in UnitIds(k) : units[k][j].st = "finished"}

Running(k) == {j \in UnitIds(k) : units[k][j].st \in {"started", "sampled"}}

\* indices = get_indices(es)
GetIndices ==
  /\ pc = "get_indices"
  /\ \E n \in 0..MaxIndices :
       /\ indices' = [k \in 1..n |-> IndexName(k)]
       /\ pc' = IF n = 0 THEN "dump" ELSE "get_fields"
  /\ i' = 1
  /\ UNCHANGED <<poolSize, fields_info, units, queue, first, pending, waiter,
                 metadata, metadata_dict, exc, file, rt, fieldVars, qa>>

\* get_indices raises: the error leaves the cell
GetIndicesRaise ==
  /\ pc = "get_indices"
  /\ pc' = "raised"
  /\ exc' = "elasticsearch"
  /\ UNCHANGED <<poolSize, indices, i, fields_info, units, queue, first,
                 pending, waiter, metadata, metadata_dict, file, rt, fieldVars,
                 qa>>

\* fields_info = get_fields(es, index); metadata = []; the executor is created
GetFields ==
  /\ pc = "get_fields"
  /\ \E n \in 0..(MaxFields - FieldsSoFar) :
       fields_info' = get_fields(Properties(n))
  /\ metadata' = <<>>
  /\ pc' = "submit"
  /\ UNCHANGED <<poolSize, indices, i, units, queue, first, pending, waiter,
                 metadata_dict, exc, file, rt, fieldVars, qa>>

GetFieldsRaise ==
  /\ pc = "get_fields"
  /\ pc' = "raised"
  /\ exc' = "elasticsearch"
  /\ UNCHANGED <<poolSize, indices, i, fields_info, units, queue, first,
                 pending, waiter, metadata, metadata_dict, file, rt, fieldVars,
                 qa>>

\* executor.submit(process_field, ...) for the next field of fields_info
Submit ==
  /\ pc = "submit"
  /\ Len(units[i]) < Len(fields_info)
  /\ units' = [units EXCEPT
                 ![i] = Append(@, NewUnit(fields_info[Len(units[i]) + 1]))]
  /\ queue' = [queue EXCEPT ![i] = Append(@, Len(units[i]) + 1)]
  /\ UNCHANGED <<poolSize, pc, indices, i, fields_info, first, pending,
                 waiter, metadata, metadata_dict, exc, file, rt, fieldVars,
                 qa>>

FreeWorkerAlways(k) == TRUE

FreeWorkerOnlyWhenIdle(k) == Running(k) = {}

\* a worker of the executor of index k is free: at most poolSize threads
\* exist and each runs one work item at a time
FreeWorker(k) == Cardinality(Running(k)) < poolSize

\* a worker thread of the executor of index k takes the next work item
Take(k) ==
  /\ queue[k] # <<>>
  /\ FreeWorker(k)
  /\ units' = [units EXCEPT ![k][Head(queue[k])].st = "started"]
  /\ queue' = [queue EXCEPT ![k] = Tail(@)]
  /\ UNCHANGED <<poolSize, pc, indices, i, fields_info, first, pending,
                 waiter, metadata, metadata_dict, exc, file, rt, fieldVars,
                 qa>>

\* the future of a unit of index k is set to finished, after the futures
\* that finished before it
Completed(u, k) == [u EXCEPT !.rank = Cardinality(Finished(k)) + 1]

NotifiedNever(k, j) == waiter

NotifiedFront(k, j) ==
  IF pc = "collect" /\ k = i /\ j \in pending
  THEN <<j>> \o waiter ELSE waiter

NotifiedTwice(k, j) ==
  IF pc = "collect" /\ k = i /\ j \in pending
  THEN Append(Append(waiter, j), j) ELSE waiter

\* a future finishes: the waiter as_completed installed is notified
Notified(k, j) ==
  IF pc = "collect" /\ k = i /\ j \in pending THEN Append(waiter, j) ELSE waiter

Search(k, j) ==
  /\ units[k][j].st = "started"
  /\ \E r \in PipeResponses :
       \E cs \in CombinedSamples(get_diverse_terms(r), threshold_default) :
         units' = [units EXCEPT
                     ![k][j] = Sampled(@, indices[k], threshold_default, cs)]
  /\ UNCHANGED <<poolSize, pc, indices, i, fields_info, queue, first, pending,
                 waiter, metadata, metadata_dict, exc, file, rt, fieldVars,
                 qa>>

SearchRaise(k, j) ==
  /\ units[k][j].st = "started"
  /\ units' = [units EXCEPT
                ![k][j] = Completed(SearchRaised(@, threshold_default), k)]
  /\ waiter' = Notified(k, j)
  /\ UNCHANGED <<poolSize, pc, indices, i, fields_info, queue, first, pending,
                 metadata, metadata_dict, exc, file, rt, fieldVars, qa>>

Generate(k, j) ==
  /\ units[k][j].st = "sampled"
  /\ \E raw \in PipeOutputs(indices[k], units[k][j].field_detail) :
       units' = [units EXCEPT
                   ![k][j] = Completed(Generated(@, indices[k], raw), k)]
  /\ waiter' = Notified(k, j)
  /\ UNCHANGED <<poolSize, pc, indices, i, fields_info, queue, first, pending,
                 metadata, metadata_dict, exc, file, rt, fieldVars, qa>>

GenerateRaise(k, j) ==
  /\ units[k][j].st = "sampled"
  /\ units' = [units EXCEPT ![k][j] = Completed(GenerateRaised(@), k)]
  /\ waiter' = Notified(k, j)
  /\ UNCHANGED <<poolSize, pc, indices, i, fields_info, queue, first, pending,
                 metadata, metadata_dict, exc, file, rt, fieldVars, qa>>

\* the futures as_completed finds finished when it is called
FirstFinishedNone(k) == {}

FirstFinished(k) == Finished(k)

\* as_completed(futures) is called once every field is submitted: the
\* finished futures are yielded first, in no particular order, the others
\* as they finish
AsCompleted ==
  /\ pc = "submit"
  /\ Len(units[i]) = Len(fields_info)
  /\ first' = FirstFinished(i)
  /\ pending' = UnitIds(i) \ Finished(i)
  /\ waiter' = <<>>
  /\ pc' = "collect"
  /\ UNCHANGED <<poolSize, indices, i, fields_info, units, queue, metadata,
                 metadata_dict, exc, file, rt, fieldVars, qa>>

AppendedTwice(md, r) == Append(Append(md, r), r)

\* metadata.append(future.result())
Appended(md, r) == Append(md, r)

\* the loop body for the next future as_completed yields: its result is
\* appended, or its exception leaves the loop
Collect ==
  /\ pc = "collect"
  /\ first # {} \/ waiter # <<>>
  /\ \E j \in (IF first # {} THEN first ELSE {Head(waiter)}) :
       /\ first' = first \ {j}
       /\ waiter' = IF first # {} THEN waiter ELSE Tail(waiter)
       /\ pending' = pending \ {j}
       /\ IF units[i][j].raised # ""
          THEN /\ exc' = units[i][j].raised
               /\ pc' = "shutdown"
               /\ UNCHANGED metadata
          ELSE /\ metadata' = Appended(metadata, units[i][j].result)
               /\ UNCHANGED <<exc, pc>>
  /\ UNCHANGED <<poolSize, indices, i, fields_info, units, queue,
                 metadata_dict, file, rt, fieldVars, qa>>

AsCompletedDoneEarly(fst, pnd) == fst = {}

\* as_completed is exhausted: nothing left to yield, no future pending
AsCompletedDone(fst, pnd) == fst = {} /\ pnd = {}

EndLoop ==
  /\ pc = "collect"
  /\ AsCompletedDone(first, pending)
  /\ pc' = "shutdown"
  /\ UNCHANGED <<poolSize, indices, i, fields_info, units, queue, first,
                 pending, waiter, metadata, metadata_dict, exc, file, rt,
                 fieldVars, qa>>

ShutdownDoneNoWait(k) == TRUE

\* executor.shutdown(wait=True) returns: every work item has run
ShutdownDone(k) == queue[k] = <<>> /\ Finished(k) = UnitIds(k)

AfterWithSwallowed(e) == "return"

\* where the coordinating thread goes on after the with block: to the
\* return statement, or nowhere in the cell when an exception is in flight
AfterWith(e) == IF e # "" THEN "raised" ELSE "return"

\* the with block is left: process_index goes on to return, or the
\* exception leaves it and generate_metadata_dictionary and the cell with it
Shutdown ==
  /\ pc = "shutdown"
  /\ ShutdownDone(i)
  /\ pc' = AfterWith(exc)
  /\ UNCHANGED <<poolSize, indices, i, fields_info, units, queue, first,
                 pending, waiter, metadata, metadata_dict, exc, file, rt,
                 fieldVars, qa>>

ExtendedByAssignment(list, more) == more

\* list.extend(more)
Extended(list, more) == list \o more

\* return metadata; metadata_dict.extend(...); the next index, or return
Return ==
  /\ pc = "return"
  /\ metadata_dict' = Extended(metadata_dict, metadata)
  /\ IF i < Len(indices)
     THEN i' = i + 1 /\ pc' = "get_fields"
     ELSE i' = i /\ pc' = "dump"
  /\ UNCHANGED <<poolSize, indices, fields_info, units, queue, first, pending,
                 waiter, metadata, exc, file, rt, fieldVars, qa>>

WrittenAfter(old, text) == old \o text

\* the content of a file opened with "w" once text is written to it
Written(old, text) == text

\* with open("es_full_metadata.json", "w") as file:
\*     json.dump(full_metadata_dict, file, indent=4)
Dump ==
  /\ pc = "dump"
  /\ file' = Written(file, json_dumps_list(metadata_dict, 4))
  /\ pc' = "done"
  /\ UNCHANGED <<poolSize, indices, i, fields_info, units, queue, first,
                 pending, waiter, metadata, metadata_dict, exc, rt, fieldVars,
                 qa>>

----------------------------------------------------------------------------
(* Specifications *)

-----------------------------------------------------------------------------
\* nl2esql.ipynb: extract_tag, generate_esql, run_all_questions

SQL_QUERY == <<"s", "q", "l", "_", "q", "u", "e", "r", "y">>

\* <{tag}>
OpenTag(tag) == <<"<">> \o tag \o <<">">>

\* </{tag}>
CloseTag(tag) == <<"<", "/">> \o tag \o <<">">>

\* the literal lit stands in txt at position p
Literal(txt, p, lit) ==
  /\ p >= 1
  /\ p + Len(lit) - 1 <= Len(txt)
  /\ SubSeq(txt, p, p + Len(lit) - 1) = lit

\* \s* can match the characters of txt from position a to position b - 1
AllSpace(txt, a, b) == \A p \in a..(b - 1) : txt[p] \in WS

\* the ways <{tag}>\s*(.*?)\s*</{tag}> matches txt from position s: where
\* the group begins and where it ends (re.DOTALL: the group takes any
\* character)
TagMatches(txt, tag, s) ==
  IF ~Literal(txt, s, OpenTag(tag)) THEN {}
  ELSE LET a == s + Len(OpenTag(tag))
       IN {be \in (a..(Len(txt) + 1)) \X (a..(Len(txt) + 1)) :
             /\ be[1] <= be[2]
             /\ AllSpace(txt, a, be[1])
             /\ \E c \in be[2]..Len(txt) :
                  /\ AllSpace(txt, be[2], c)
                  /\ Literal(txt, c, CloseTag(tag))}

\* group(1) of the match re.search prefers at s: the first \s* is greedy and
\* takes the most it can, the group is lazy and takes the least it can
Group(txt, tag, s) ==
  LET ms == TagMatches(txt, tag, s)
      b == Max({be[1] : be \in ms})
      e == Min({be[2] : be \in {x \in ms : x[1] = b}})
  IN SubSeq(txt, b, e - 1)

\* match = re.search(...); return match.group(1) if match else ""
extract_tag(txt, tag) ==
  LET starts == {s \in 1..Len(txt) : TagMatches(txt, tag, s) # {}}
  IN IF starts = {} THEN <<>> ELSE Group(txt, tag, Min(starts))

\* the questions of a run
MaxQuestions == 2

\* longest text between the tags of a generated answer
MaxQueryLen == 2

Question(k) == <<"Q", Digits[k + 1]>>

\* what generate_text can answer to the prompt of a question: a query
\* between the tags with whitespace around or inside it, nothing or only
\* whitespace between the tags, no tag, a tag that is not closed, a closing
\* tag before the opening one, two tagged queries; each with or without
\* text before and after
Answers ==
  LET open == OpenTag(SQL_QUERY)
      close == CloseTag(SQL_QUERY)
      cores == {open \o q \o close : q \in SeqsUpTo({"q", SP, NL}, MaxQueryLen)}
                 \cup {<<>>, <<"q">>, open \o <<"q">>,
                       close \o open \o <<"q">>,
                       open \o <<"q">> \o close \o open \o <<"r">> \o close}
  IN {pre \o core \o post :
        pre \in {<<>>, <<"a", SP>>}, core \in cores, post \in {<<>>, <<NL>>}}

\* the calls of the services made so far, with the question they were made for
Called(log, call, question) ==
  Append(log, [call |-> call, question |-> question])

QaInit ==
  \E n \in 0..MaxQuestions :
    qa = [pc |-> "loop", questions |-> [k \in 1..n |-> Question(k)],
          idx |-> 0, response |-> <<>>, query |-> <<>>, sent |-> <<>>,
          shown |-> "", log |-> <<>>]

QaIdle ==
  qa = [pc |-> "idle", questions |-> <<>>, idx |-> 0, response |-> <<>>,
        query |-> <<>>, sent |-> <<>>, shown |-> "", log |-> <<>>]

\* the next question: query = generate_esql(question)
GenerateEsql ==
  /\ qa.pc = "loop"
  /\ qa.idx < Len(qa.questions)
  /\ \E response \in Answers :
       qa' = [qa EXCEPT !.pc = "generated",
                        !.idx = @ + 1,
                        !.response = response,
                        !.query = extract_tag(response, SQL_QUERY),
                        !.log = Called(@, "generate_text",
                                       qa.questions[qa.idx + 1])]
  /\ UNCHANGED <<rt, fieldVars, pipeVars>>

\* watsonx_client.generate_text raises: the error leaves run_all_questions
GenerateEsqlRaise ==
  /\ qa.pc = "loop"
  /\ qa.idx < Len(qa.questions)
  /\ qa' = [qa EXCEPT !.pc = "raised",
                      !.idx = @ + 1,
                      !.log = Called(@, "generate_text",
                                     qa.questions[qa.idx + 1])]
  /\ UNCHANGED <<rt, fieldVars, pipeVars>>

QueryTruthyAlways(query) == TRUE

\* if query.strip():
QueryTruthy(query) == Strip(query) # <<>>

\* df = execute_esql_query(query), and what is printed for df
ExecuteEsqlQuery ==
  /\ qa.pc = "generated"
  /\ QueryTruthy(qa.query)
  /\ \E shown \in {"No results found.", "Query Results:"} :
       qa' = [qa EXCEPT !.pc = "loop",
                        !.sent = qa.query,
                        !.shown = shown,
                        !.log = Called(@, "sql.query",
                                       qa.questions[qa.idx])]
  /\ UNCHANGED <<rt, fieldVars, pipeVars>>

\* es_client.sql.query raises: the error leaves run_all_questions
ExecuteEsqlQueryRaise ==
  /\ qa.pc = "generated"
  /\ QueryTruthy(qa.query)
  /\ qa' = [qa EXCEPT !.pc = "raised",
                      !.sent = qa.query,
                      !.log = Called(@, "sql.query", qa.questions[qa.idx])]
  /\ UNCHANGED <<rt, fieldVars, pipeVars>>

\* else: print("No query generated or query is empty.")
NoQueryGenerated ==
  /\ qa.pc = "generated"
  /\ ~QueryTruthy(qa.query)
  /\ qa' = [qa EXCEPT !.pc = "loop",
                      !.shown = "No query generated or query is empty."]
  /\ UNCHANGED <<rt, fieldVars, pipeVars>>

\* the for loop is exhausted: run_all_questions returns
QuestionsDone ==
  /\ qa.pc = "loop"
  /\ qa.idx = Len(qa.questions)
  /\ qa' = [qa EXCEPT !.pc = "done"]
  /\ UNCHANGED <<rt, fieldVars, pipeVars>>

-----------------------------------------------------------------------------

Init == PipeInit /\ PfIdle /\ RtIdle /\ QaIdle

Next ==
  \/ GetIndices
  \/ GetIndicesRaise
  \/ GetFields
  \/ GetFieldsRaise
  \/ Submit
  \/ \E k \in 1..MaxIndices : Take(k)
  \/ \E k \in 1..MaxIndices : \E j \in UnitIds(k) : Search(k, j)
  \/ \E k \in 1..MaxIndices : \E j \in UnitIds(k) : SearchRaise(k, j)
  \/ \E k \in 1..MaxIndices : \E j \in UnitIds(k) : Generate(k, j)
  \/ \E k \in 1..MaxIndices : \E j \in UnitIds(k) : GenerateRaise(k, j)
  \/ AsCompleted
  \/ Collect
  \/ EndLoop
  \/ Shutdown
  \/ Return
  \/ Dump

\* a run of generate_metadata_dictionary and the dump that follows it
Spec == Init /\ [][Next]_vars

\* the unit whose external call may never return
Stalled == <<1, 1>>

\* an external call of unit j of index k returns or raises
UnitStep(k, j) ==
  /\ j \in UnitIds(k)
  /\ \/ SearchRaise(k, j)
     \/ GenerateRaise(k, j)
     \/ Search(k, j)
     \/ Generate(k, j)

\* Worker threads that can run do run: an idle worker takes the next item
\* of the queue, and every call of a service returns or raises in the end,
\* except the calls of the unit Stalled, which may hang for ever.
Fairness ==
  /\ \A k \in 1..MaxIndices : WF_vars(Take(k))
  /\ \A k \in 1..MaxIndices : \A j \in 1..MaxFields :
       <<k, j>> # Stalled => WF_vars(UnitStep(k, j))

\* the run, with workers that make progress and one unit that may hang
SpecLive == Init /\ [][Next]_vars /\ Fairness

\* a step of the coordinating thread inside generate_metadata_dictionary
CoordinatorStep ==
  \/ GetIndices
  \/ GetIndicesRaise
  \/ GetFields
  \/ GetFieldsRaise
  \/ Submit
  \/ AsCompleted
  \/ Collect
  \/ EndLoop
  \/ Shutdown
  \/ Return

\* Threads that can run do run: the coordinating thread goes on when it is
\* not blocked, an idle worker takes the next item of the queue, and every
\* call of a service returns or raises in the end.
FairnessAll ==
  /\ WF_vars(CoordinatorStep)
  /\ \A k \in 1..MaxIndices : WF_vars(Take(k))
  /\ \A k \in 1..MaxIndices : \A j \in 1..MaxFields :
       WF_vars(UnitStep(k, j))

\* the run, with threads that make progress and calls that all end
SpecTerm == Init /\ [][Next]_vars /\ FairnessAll

InitField == PfInit /\ PipeIdle /\ RtIdle /\ QaIdle

NextField ==
  \/ FieldSearch
  \/ FieldSearchRaise
  \/ FieldGenerate
  \/ FieldGenerateRaise

\* one call of process_field
SpecField == InitField /\ [][NextField]_vars

InitJson == RtInit /\ PipeIdle /\ PfIdle /\ QaIdle

NextJson ==
  \/ Dumps
  \/ Extract
  \/ DumpsAgain
  \/ ExtractAgain

\* json.dumps, extract_json, and both again
SpecJson == InitJson /\ [][NextJson]_vars

InitQuestions == QaInit /\ PipeIdle /\ PfIdle /\ RtIdle

NextQuestions ==
  \/ GenerateEsql
  \/ GenerateEsqlRaise
  \/ ExecuteEsqlQuery
  \/ ExecuteEsqlQueryRaise
  \/ NoQueryGenerated
  \/ QuestionsDone

\* a call of run_all_questions
SpecQuestions == InitQuestions /\ [][NextQuestions]_vars

----------------------------------------------------------------------------
(* Properties *)

BagOfSeq(seq) ==
  [x \in Range(seq) |-> Cardinality({p \in DOMAIN seq : seq[p] = x})]

Missing == [t |-> "missing", s |-> <<>>, m |-> <<>>]

\* the value a record has under a key, Missing when it has none
Field(o, k) == IF HasKey(o, k) THEN Get(o, k) ELSE Missing

\* the (index_name, field_name) key of a record
Key(r) == <<Field(r, INDEX_NAME), Field(r, FIELD_NAME)>>

KeysOf(seq) == BagOfSeq([p \in DOMAIN seq |-> Key(seq[p])])

NoneRaised(k) == \A j \in UnitIds(k) : units[k][j].raised = ""

\* C1: when process_index returns for an index none of whose units raised,
\* the list it returns has as many records as get_fields returned fields, and
\* its records are the results of the units, each exactly once, whatever the
\* order in which the units completed.
C1_OneRecordPerField ==
  (pc = "return" /\ NoneRaised(i)) =>
    /\ Len(metadata) = Len(fields_info)
    /\ Len(units[i]) = Len(fields_info)
    /\ BagOfSeq(metadata)
         = BagOfSeq([j \in UnitIds(i) |-> units[i][j].result])

\* two units of one index, collected in the reverse of the submission order
C1_Witness ==
  /\ pc = "return"
  /\ Len(fields_info) = 2
  /\ Len(metadata) = 2
  /\ metadata[1] = units[i][2].result
  /\ metadata[1] # units[i][1].result

AllPairs == {kj \in (1..MaxIndices) \X (1..MaxFields) : kj[2] \in UnitIds(kj[1])}

\* C2: after a run without failures the dictionary holds, for every (index,
\* field) pair scanned, exactly one record whose index_name and field_name are
\* those of the pair, with the data_type of the field, and no other record.
C2_OneEntryPerPair ==
  pc = "done" =>
    /\ Len(metadata_dict) = Cardinality(AllPairs)
    /\ \A kj \in AllPairs :
         LET fd == units[kj[1]][kj[2]].field_detail
             hits == {p \in DOMAIN metadata_dict :
                        Key(metadata_dict[p])
                          = <<JStr(indices[kj[1]]), JStr(fd.field_name)>>}
         IN /\ Cardinality(hits) = 1
            /\ \A p \in hits :
                 Field(metadata_dict[p], DATA_TYPE) = JStr(fd.data_type)

\* the record process_field returns for what the services answered to unit j
\* of index k
RecordOfAnswers(k, j) ==
  ResultOrRaise(indices[k], units[k][j].field_detail.field_name,
                units[k][j].field_detail.data_type,
                Strip(units[k][j].llm_raw), units[k][j].combined_samples).val

\* C3: the keys of the list process_index returns are the keys of the records
\* that the answers of the services give for the fields, each once: they are
\* fixed by the fields and the answers, so a pool of 1 worker and a pool of 10
\* workers return the same keys for the same fields and answers, none missing,
\* none duplicated.
C3_KeysSameForEveryPoolSize ==
  \A size \in PoolSizes :
    (poolSize = size /\ pc = "return" /\ NoneRaised(i)) =>
      KeysOf(metadata) = KeysOf([j \in UnitIds(i) |-> RecordOfAnswers(i, j)])

\* ten workers, two units running at the same time, the second collected first
C3_Witness ==
  /\ poolSize = max_workers
  /\ pc = "return"
  /\ Len(metadata) = 2
  /\ Key(metadata[1]) = Key(units[i][2].result)
  /\ Key(metadata[1]) # Key(units[i][1].result)

\* C4: whatever generate_text returns, process_field returns a record: when
\* extract_json raises, the record is the fallback record, and no ValueError
\* reaches process_index or ends the run.
C4_FormatErrorStaysInProcessField ==
  /\ exc # "ValueError"
  /\ \A kj \in AllPairs :
       LET u == units[kj[1]][kj[2]]
       IN (u.st = "finished" /\ u.raised \notin {"elasticsearch", "watsonx"}) =>
            /\ u.raised = ""
            /\ u.result.t = "obj"
            /\ extract_json(u.llm_text).raised # "" =>
                 u.result = Fallback(indices[kj[1]], u.field_detail.field_name,
                                     u.field_detail.data_type, u.llm_text,
                                     u.combined_samples)

\* a run that ends well with a record made from a span that does not parse
C4_Witness ==
  /\ pc = "done"
  /\ \E kj \in AllPairs :
       /\ units[kj[1]][kj[2]].llm_raw = BrokenSpan
       /\ \E p \in DOMAIN metadata_dict :
            Field(metadata_dict[p], NATURAL_LANGUAGE_DESCRIPTION)
              = JStr(BrokenSpan)

\* no "{" with a "}" after it
NoBracePair(txt) ==
  ~ \E a, b \in 1..Len(txt) : a < b /\ txt[a] = "{" /\ txt[b] = "}"

FirstOrEmpty(seq) == IF seq # <<>> THEN seq[1] ELSE <<>>

FallbackOf(description) ==
  /\ Field(pf.result, FIELD_NAME) = JStr(pf_in.field_detail.field_name)
  /\ Field(pf.result, INDEX_NAME) = JStr(pf_in.index)
  /\ Field(pf.result, DATA_TYPE) = JStr(pf_in.field_detail.data_type)
  /\ Field(pf.result, NATURAL_LANGUAGE_DESCRIPTION) = JStr(description)
  /\ Field(pf.result, SAMPLE_VALUE) = JStr(FirstOrEmpty(pf.combined_samples))

Returned == pf.st = "finished" /\ pf.raised = ""

\* C5 as stated: when the generated text has no brace pair, the record has the
\* arguments as field_name, index_name and data_type, the text generate_text
\* returned, verbatim, as description, and the first sample (or "") as
\* sample_value.
C5_DescriptionIsRawText ==
  (Returned /\ NoBracePair(pf.llm_raw)) => FallbackOf(pf.llm_raw)

\* C5: when the generated text has no brace pair, the record has the
\* arguments as field_name, index_name and data_type, the text generate_text
\* returned with the whitespace at both ends stripped as description, and as
\* sample_value the first element of the list passed to generate_prompt, ""
\* when that list is empty.
C5_DescriptionIsStrippedText ==
  (Returned /\ NoBracePair(pf.llm_raw)) => FallbackOf(Strip(pf.llm_raw))

\* prose with whitespace around it, and a sample
C5_Witness ==
  /\ Returned
  /\ NoBracePair(pf.llm_raw)
  /\ Strip(pf.llm_raw) # pf.llm_raw
  /\ Strip(pf.llm_raw) # <<>>
  /\ pf.combined_samples # <<>>
  /\ FallbackOf(Strip(pf.llm_raw))

AllTerms(r) == r.frequent_terms \o r.rare_terms \o r.significant_terms

\* the search answered
Searched == pf.st = "sampled" \/ (pf.st = "finished" /\ pf.raised # "elasticsearch")

\* C6: for any three term lists and any threshold >= 0, the list passed to
\* generate_prompt has no element twice and at most threshold elements.
C6_NoDuplicateAtMostThreshold ==
  (Searched /\ pf_in.threshold >= 0) =>
    /\ \A a, b \in DOMAIN pf.combined_samples :
         a # b => pf.combined_samples[a] # pf.combined_samples[b]
    /\ Len(pf.combined_samples) <= pf_in.threshold
    /\ pf.prompt.samples = Join(pf.combined_samples)

\* duplicates within a list and across lists, more distinct values than the
\* threshold allows
C6_Witness ==
  /\ Searched
  /\ Len(pf_in.response.frequent_terms) = 2
  /\ Cardinality(Range(pf_in.response.frequent_terms)) = 1
  /\ pf_in.response.rare_terms = pf_in.response.significant_terms
  /\ Cardinality(Range(AllTerms(pf_in.response))) = 2
  /\ pf_in.threshold = 1
  /\ Len(pf.combined_samples) = 1

\* C7: every element of the sample list is an element of one of the three
\* term lists, and the list has min(threshold, number of distinct values of
\* the three lists) elements.
C7_SamplesFromUnionMinLength ==
  Searched =>
    LET union == Range(AllTerms(pf_in.response))
    IN /\ Range(pf.combined_samples) \subseteq union
       /\ Len(pf.combined_samples)
            = IF pf_in.threshold < Cardinality(union)
              THEN pf_in.threshold ELSE Cardinality(union)

\* frequent=[Male, Female], rare=[], significant=[Male] gives {Male, Female}
C7_Witness ==
  /\ Searched
  /\ pf_in.response = GenderTerms
  /\ pf_in.threshold = threshold_default
  /\ Len(pf.combined_samples) = 2
  /\ Range(pf.combined_samples) = {Male, Female}

\* C8: extract_json of the text json.dumps gives for an object x returns an
\* object equal to x, and extract_json of the text of that result returns it
\* again.
C8_ExtractInvertsDumps ==
  /\ rt.pc \in {"obj", "text2", "obj2"} =>
       rt.obj.raised = "" /\ JsonEq(rt.obj.val, rt.x)
  /\ rt.pc = "obj2" =>
       rt.obj2.raised = "" /\ JsonEq(rt.obj2.val, rt.obj.val)

\* an object with a nested object and a "}" inside a string, on several lines
C8_Witness ==
  /\ rt.pc = "obj2"
  /\ rt.indent = 1
  /\ \E a, b \in DOMAIN rt.x.m :
       /\ rt.x.m[a][2] = JStr(<<"}">>)
       /\ rt.x.m[b][2].t = "obj"
       /\ rt.x.m[b][2].m # <<>>
  /\ JsonEq(rt.obj2.val, rt.x)

\* the field each of the four field aggregations of the query targets
Targets(q) ==
  {q.frequent_terms.field, q.rare_terms.field, q.significant_terms.field,
   q.unique_count.field}

\* C9: the four field aggregations of the query target field + ".keyword"
\* when data_type is "text" and the field itself for any other data_type.
C9_KeywordSubfieldOnlyForText ==
  pf.st # "started" =>
    Targets(pf.query)
      = {IF pf_in.field_detail.data_type = TEXT
         THEN pf_in.field_detail.field_name \o <<".", "k", "e", "y", "w", "o", "r", "d">>
         ELSE pf_in.field_detail.field_name}

\* field Division of type keyword is queried as Division
C9_Witness ==
  /\ pf.st = "sampled"
  /\ pf_in.field_detail = [field_name |-> Division, data_type |-> KEYWORD]
  /\ Targets(pf.query) = {Division}

\* C10: once a unit of an index is submitted, every unit of every earlier
\* index has finished, none is queued or running, and the records of the
\* earlier indices are in metadata_dict.
C10_IndicesOneAfterAnother ==
  \A k \in 1..MaxIndices : \A k2 \in (k + 1)..MaxIndices :
    units[k2] # <<>> =>
      /\ Finished(k) = UnitIds(k)
      /\ queue[k] = <<>>
      /\ Len(metadata_dict) >= SumLen(units, k)

\* a unit of the second index runs after the unit of the first was collected
C10_Witness ==
  /\ i = 2
  /\ units[1] # <<>>
  /\ Running(2) # {}
  /\ Len(metadata_dict) = Len(units[1])

\* the results of all the units of the run, index after index
AllResults == BagOfSeq([p \in 1..Cardinality(AllPairs) |->
                 LET kj == CHOOSE x \in AllPairs :
                             SumLen(units, x[1] - 1) + x[2] = p
                 IN  units[kj[1]][kj[2]].result])

\* C11: the document is written only after every unit of the run has
\* completed and its record is in the dictionary: once the document is
\* written (and as long as it is not, it is the one the previous run left)
\* no index is left to scan, no unit is queued or running, none has raised,
\* the records of the dictionary are the results of the units, one for each
\* scanned (index, field) pair, and the document is the text of that list.
C11_WrittenAfterEveryUnit ==
  /\ pc # "done" => file = OldDocument
  /\ pc = "done" =>
       /\ indices # <<>> => Len(units[Len(indices)]) = Len(fields_info)
       /\ \A k \in 1..MaxIndices :
            /\ k > Len(indices) => units[k] = <<>>
            /\ Finished(k) = UnitIds(k)
            /\ queue[k] = <<>>
            /\ NoneRaised(k)
       /\ Len(metadata_dict) = Cardinality(AllPairs)
       /\ BagOfSeq(metadata_dict) = AllResults
       /\ file = json_dumps_list(metadata_dict, 4)

\* the document of a run over two indices of one field each is written
C11_Witness ==
  /\ pc = "done"
  /\ Len(indices) = 2
  /\ Len(units[1]) = 1
  /\ Len(units[2]) = 1
  /\ file # OldDocument

\* the units of index k whose call of process_field raised
Failed(k) == {j \in UnitIds(k) : units[k][j].raised # ""}

\* C12: a unit that fails with an error of Elasticsearch or of the generation
\* service fails alone: once process_index is out of its with block the run
\* has not been aborted by the error, and the records of the other units of
\* the index are in the list process_index returns.
C12_UnitFailureStaysPerUnit ==
  \A k \in 1..MaxIndices :
    (Failed(k) # {} /\ (k < i \/ pc \notin {"submit", "collect", "shutdown"}))
      => /\ pc # "raised"
         /\ \A j \in UnitIds(k) \ Failed(k) :
              units[k][j].result \in Range(metadata_dict \o metadata)

\* process_index is over for index k: it returned or the exception left it
IndexDone(k) ==
  /\ units[k] # <<>>
  /\ k < i \/ pc \in {"return", "dump", "done", "raised"}

UnitFinished(k, j) == j \in UnitIds(k) /\ units[k][j].st = "finished"

\* C13: with a pool of at least 2 workers, while the calls of one unit may
\* hang for ever, every other unit submitted for its index is started and
\* finishes in the end, and process_index is not over for that index before
\* the stalled unit has finished.
C13_StalledUnitHoldsOneWorker ==
  /\ \A j \in 1..MaxFields :
       (poolSize >= 2 /\ j \in UnitIds(Stalled[1]) /\ j # Stalled[2])
         ~> UnitFinished(Stalled[1], j)
  /\ [](IndexDone(Stalled[1]) => UnitFinished(Stalled[1], Stalled[2]))

\* the stalled unit holds a worker, before its first call returned, while
\* the other unit of the index has finished and was collected
C13_Witness ==
  /\ poolSize >= 2
  /\ Len(units[1]) = 2
  /\ units[1][1].st = "started"
  /\ units[1][2].st = "finished"
  /\ pc = "collect"
  /\ Len(metadata) = 1

\* the futures of the current index that as_completed has yielded so far
Yielded == UnitIds(i) \ (first \cup pending)

\* C14: the result list is written by the coordinating thread alone, once
\* for each future as_completed yields: no step that changes a unit changes
\* the list; the list changes only when process_index creates it empty or
\* when the result of a finished future, not yielded before, is appended
\* and that future counts as yielded; and during the loop the list holds the
\* results of the yielded futures that did not raise, each once.
C14_OnlyCoordinatorAppendsOnce ==
  /\ [][/\ units' # units => metadata' = metadata
        /\ metadata' # metadata =>
             \/ pc = "get_fields" /\ metadata' = <<>>
             \/ /\ pc = "collect"
                /\ \E j \in first \cup pending :
                     /\ units[i][j].st = "finished"
                     /\ metadata' = Append(metadata, units[i][j].result)
                     /\ j \notin first' \cup pending']_vars
  /\ [](pc = "collect" =>
          BagOfSeq(metadata)
            = BagOfSeq([p \in 1..Cardinality(Yielded \ Failed(i)) |->
                          LET j == CHOOSE x \in Yielded \ Failed(i) :
                                     Cardinality({y \in Yielded \ Failed(i) :
                                                    y <= x}) = p
                          IN  units[i][j].result]))

\* the second future of an index is appended while the first, submitted
\* before it, is still running
C14_Witness ==
  /\ pc = "collect"
  /\ Len(units[i]) = 2
  /\ Yielded = {2}
  /\ metadata = <<units[i][2].result>>
  /\ units[i][1].st \in {"started", "sampled"}

\* C15: the write replaces the document: a step changes the file only at the
\* dump, and after the dump the file is the text of the list of records of
\* this run and of nothing else, whatever the previous run left in it.
C15_FullSnapshotOverwrite ==
  /\ [][file' # file => pc = "dump" /\ pc' = "done"]_vars
  /\ [](pc = "done" =>
          /\ file = json_dumps_list(metadata_dict, 4)
          /\ metadata_dict = <<>> => file = <<"[", "]">>)

\* a run with one record, which is not the record of the previous run, has
\* written the document
C15_Witness ==
  /\ pc = "done"
  /\ Len(metadata_dict) = 1
  /\ OldRecords[1] \notin Range(metadata_dict)
  /\ Len(file) > 2

Opens(txt) == {p \in 1..Len(txt) : txt[p] = "{"}

Closes(txt) == {p \in 1..Len(txt) : txt[p] = "}"}

\* the text has a "{" with a "}" somewhere after it
HasSpan(txt) == \E a \in Opens(txt) : \E b \in Closes(txt) : a < b

\* the text from its first "{" to its last "}"
WholeSpan(txt) == SubSeq(txt, Min(Opens(txt)), Max(Closes(txt)))

\* C16: when the text generate_text returned has a span from a "{" to a "}"
\* that parses as JSON, the record process_field returns is the parsed object
\* itself: its keys and values are the ones the model wrote, in particular
\* field_name, index_name and data_type, also when they differ from the
\* arguments of the call.
C16_ParsedObjectReturnedAsIs ==
  (/\ Returned
   /\ HasSpan(pf.llm_raw)
   /\ json_loads(WholeSpan(pf.llm_raw)).ok)
    => pf.result = json_loads(WholeSpan(pf.llm_raw)).val

\* the model wrote another field_name than the argument, with prose before
\* the object: the record has the model's field_name
C16_Witness ==
  /\ Returned
  /\ pf.llm_raw = <<"a">> \o json_dumps(WrongEcho(pf_in.index,
                                                  pf_in.field_detail), 0)
  /\ Field(pf.result, FIELD_NAME) = JStr(Other)
  /\ pf_in.field_detail.field_name # Other
  /\ Keys(pf.result) = Keys(WrongEcho(pf_in.index, pf_in.field_detail))

C18_OneSearchThenOneGeneration ==
  \A kj \in AllPairs :
    LET u == units[kj[1]][kj[2]]
    IN /\ u.st \in {"queued", "started"} => u.calls = <<>>
       /\ u.st = "sampled" => u.calls = <<"search">>
       /\ (u.st = "finished" /\ u.raised = "elasticsearch")
            => u.calls = <<"search">>
       /\ (u.st = "finished" /\ u.raised # "elasticsearch")
            => u.calls = <<"search", "generate_text">>

\* a unit whose text was no valid JSON returned the fallback after one call
\* of each service
C18_Witness ==
  \E kj \in AllPairs :
    LET u == units[kj[1]][kj[2]]
    IN /\ u.st = "finished"
       /\ u.raised = ""
       /\ u.extract.raised = "Error parsing JSON"
       /\ Field(u.result, NATURAL_LANGUAGE_DESCRIPTION) = JStr(u.llm_text)
       /\ u.calls = <<"search", "generate_text">>

\* C19: when the search of a unit raises, process_field ends there with that
\* error: the search was called once, the generation service never, no
\* prompt was built and no record exists for the unit; a unit ends without a
\* call of the generation service in no other way; and when the coordinating
\* thread meets the future, the error it re-raises is the one of the search
\* and nothing is appended for the unit.
C19_SearchErrorLeavesProcessField ==
  \A kj \in AllPairs :
    LET u == units[kj[1]][kj[2]]
    IN /\ (u.st = "finished" /\ "generate_text" \notin Range(u.calls))
            => u.raised = "elasticsearch"
       /\ u.raised = "elasticsearch"
            => /\ u.st = "finished"
               /\ u.calls = <<"search">>
               /\ u.prompt = NoPrompt
               /\ u.llm_raw = <<>>
               /\ u.result = NoResult
               /\ NoResult \notin Range(metadata_dict \o metadata)
               /\ ~(kj[1] = i /\ pc = "collect" /\ kj[2] \in Yielded)
               /\ (kj[1] = i /\ pc \in {"shutdown", "raised"}
                   /\ Failed(i) = {kj[2]})
                    => /\ exc = "elasticsearch"
                       /\ Len(metadata) < Len(units[i])

\* the search of the only field of an index raised and the error left the run
C19_Witness ==
  /\ pc = "raised"
  /\ exc = "elasticsearch"
  /\ i \in 1..MaxIndices
  /\ Len(units[i]) = 1
  /\ units[i][1].raised = "elasticsearch"
  /\ units[i][1].calls = <<"search">>
  /\ metadata = <<>>

\* C20: in a call of process_index every field is submitted before a result
\* is collected, and never more units of an index run than the pool has
\* workers: the units that do not run yet wait in the queue in the order of
\* submission, and a unit starts only as the head of the queue and only when
\* fewer units run than the pool has workers.
C20_SubmitAllThenAtMostPoolSize ==
  /\ [](/\ \A k \in 1..MaxIndices :
             /\ Cardinality(Running(k)) <= poolSize
             /\ Range(queue[k])
                  = {j \in UnitIds(k) : units[k][j].st = "queued"}
        /\ pc = "submit" => metadata = <<>>
        /\ pc \in {"collect", "shutdown", "return"}
             => Len(units[i]) = Len(fields_info))
  /\ [][\A kj \in AllPairs :
          (units[kj[1]][kj[2]].st = "queued"
           /\ units'[kj[1]][kj[2]].st # "queued")
            => /\ Cardinality(Running(kj[1])) < poolSize
               /\ kj[2] = Head(queue[kj[1]])
               /\ units'[kj[1]][kj[2]].st = "started"]_vars

\* the pool is full: its worker runs the first unit, the second waits
C20_Witness ==
  /\ i \in 1..MaxIndices
  /\ Len(units[i]) = 2
  /\ Cardinality(Running(i)) = poolSize
  /\ queue[i] = <<2>>
  /\ units[i][2].st = "queued"

\* the future of unit j of the current index is yielded in this step
YieldedNow(j) ==
  /\ pc = "collect"
  /\ j \in first \cup pending
  /\ j \notin first' \cup pending'

\* the futures of the current index that finished before the one of unit j
\* and were not yielded yet
FinishedBeforeNotYielded(j) ==
  {a \in Finished(i) \ Yielded : units[i][a].rank < units[i][j].rank}

\* C21 as stated: the results of an index are collected in the order in which
\* the units finished: when the future of a unit is yielded, every future
\* of the index that finished before it has been yielded already.
C21_CompletionOrder ==
  [][\A j \in 1..MaxFields :
       YieldedNow(j) => FinishedBeforeNotYielded(j) = {}]_vars

\* C21: the results of the units that finish after as_completed was called
\* are collected in the order in which the units finished, after the results
\* of all the units that had finished by then: when the future of a unit
\* that was pending at the call is yielded, every future of the index that
\* finished before it has been yielded already.  The futures that had
\* finished at the call are yielded first, in no particular order.
C21_CompletionOrderAfterCall ==
  [][\A j \in 1..MaxFields :
       (YieldedNow(j) /\ j \in pending) =>
         /\ FinishedBeforeNotYielded(j) = {}
         /\ first = {}]_vars

\* the second unit finished first, the first one after as_completed was
\* called, and the list has their results in that order
C21_Witness ==
  /\ pc = "collect"
  /\ Len(units[i]) = 2
  /\ units[i][2].rank = 1
  /\ units[i][1].rank = 2
  /\ first = {}
  /\ pending = {}
  /\ waiter = <<>>
  /\ metadata = <<units[i][2].result, units[i][1].result>>
  /\ units[i][1].result # units[i][2].result

\* the text of an answer between its first opening tag that a closing tag
\* follows and the first closing tag after it
BetweenTags(txt) ==
  LET open == OpenTag(SQL_QUERY)
      close == CloseTag(SQL_QUERY)
      closes == {c \in 1..Len(txt) : Literal(txt, c, close)}
      opens == {s \in 1..Len(txt) :
                  /\ Literal(txt, s, open)
                  /\ \E c \in closes : c >= s + Len(open)}
      s == Min(opens)
      c == Min({x \in closes : x >= s + Len(open)})
  IN IF opens = {} THEN <<>> ELSE SubSeq(txt, s + Len(open), c - 1)

\* the positions in the log of the calls made for question k
CallsFor(k) ==
  {p \in 1..Len(qa.log) : qa.log[p].question = qa.questions[k]}

\* C22: run_all_questions takes the questions in list order, one at a time:
\* the log has, for each question begun, one call of generate_text, in list
\* order, a question begins only when the one before it is dealt with, and a
\* call of sql.query only right after the call of generate_text for the same
\* question; once a question is dealt with, sql.query was called for it if
\* and only if the text between the first <sql_query> and </sql_query> has a
\* character that is not whitespace, with that text, stripped, as the query;
\* if not, in particular when the tags are missing, no query was sent, the
\* message for the empty query was printed and the loop went on.
C22_QueryOnlyForNonEmptyTag ==
  /\ [][\E n \in 0..2 : /\ Len(qa'.log) = Len(qa.log) + n
                        /\ SubSeq(qa'.log, 1, Len(qa.log)) = qa.log]_vars
  /\ [](/\ qa.idx <= Len(qa.questions)
        /\ \A k \in 1..Len(qa.questions) :
             /\ k > qa.idx => CallsFor(k) = {}
             /\ k <= qa.idx =>
                  /\ CallsFor(k) # {}
                  /\ qa.log[Min(CallsFor(k))].call = "generate_text"
                  /\ \A p \in CallsFor(k) \ {Min(CallsFor(k))} :
                       /\ p = Min(CallsFor(k)) + 1
                       /\ qa.log[p].call = "sql.query"
                  /\ k > 1 => Max(CallsFor(k - 1)) < Min(CallsFor(k))
        /\ (qa.pc \in {"generated", "loop", "done"} /\ qa.idx >= 1) =>
             qa.query = Strip(BetweenTags(qa.response))
        /\ (qa.pc \in {"loop", "done"} /\ qa.idx >= 1) =>
             IF Strip(BetweenTags(qa.response)) # <<>>
             THEN /\ Cardinality(CallsFor(qa.idx)) = 2
                  /\ qa.sent = Strip(BetweenTags(qa.response))
                  /\ qa.shown \in {"No results found.", "Query Results:"}
             ELSE /\ Cardinality(CallsFor(qa.idx)) = 1
                  /\ qa.shown = "No query generated or query is empty.")

\* two questions: the answer to the first has only whitespace between the
\* tags and no query is sent for it, the answer to the second has a query
\* with whitespace around it, which is sent without it
C22_Witness ==
  /\ qa.pc = "done"
  /\ Len(qa.questions) = 2
  /\ qa.log = <<[call |-> "generate_text", question |-> Question(1)],
                [call |-> "generate_text", question |-> Question(2)],
                [call |-> "sql.query", question |-> Question(2)]>>
  /\ BetweenTags(qa.response) = <<SP, "q">>
  /\ qa.sent = <<"q">>

\* the exception of a unit has left the loop over as_completed
UnitExceptionCaught ==
  /\ pc \in {"shutdown", "raised"}
  /\ exc # ""
  /\ i \in 1..MaxIndices
  /\ Failed(i) # {}

\* C23: when a unit raises, the other units of the index are neither
\* cancelled nor abandoned: once the exception has left the loop, no unit is
\* taken out of the pool, a queued unit can only start and a started one only
\* go on; as long as a unit is unfinished a worker can make a step; and the
\* exception has left process_index only when every unit of the index is
\* finished and the queue is empty.
C23_ExceptionWaitsForAllUnits ==
  /\ [][UnitExceptionCaught =>
          /\ Len(units'[i]) = Len(units[i])
          /\ \A j \in UnitIds(i) :
               /\ units[i][j].st = "queued"
                    => units'[i][j].st \in {"queued", "started"}
               /\ units[i][j].st = "started"
                    => units'[i][j].st \in {"started", "sampled", "finished"}
               /\ units[i][j].st = "sampled"
                    => units'[i][j].st \in {"sampled", "finished"}
               /\ units[i][j].st = "finished" => units'[i][j] = units[i][j]
               /\ (units'[i][j].st = "finished" /\ units[i][j].st # "finished")
                    => "search" \in Range(units'[i][j].calls)]_vars
  /\ []((UnitExceptionCaught /\ pc = "shutdown"
         /\ Finished(i) # UnitIds(i))
          => ENABLED (Take(i) \/ \E j \in 1..MaxFields : UnitStep(i, j)))
  /\ []((UnitExceptionCaught /\ pc = "raised")
          => (Finished(i) = UnitIds(i) /\ queue[i] = <<>>))

\* the exception of the first unit has left the loop while the second unit
\* still waits in the queue
C23_Witness ==
  /\ pc = "shutdown"
  /\ exc # ""
  /\ Len(units[i]) = 2
  /\ units[i][1].raised # ""
  /\ units[i][2].st = "queued"

\* the indices one of whose units raised
FailedIndices == {k \in 1..MaxIndices : Failed(k) # {}}

\* C24: when a unit raises, the run fails as a whole and the document stays
\* as it was: process_index never returns for the index of that unit, so
\* the dictionary gets none of its records, the results appended so far are
\* not used, no later index is begun, the dictionary is never dumped, and
\* the file keeps the content the previous run left, not truncated; the run
\* ends with the exception.
C24_UnitFailureFailsRunFileUntouched ==
  /\ [](\A k \in FailedIndices :
          /\ i = k
          /\ pc \in {"submit", "collect", "shutdown", "raised"}
          /\ \A k2 \in (k + 1)..MaxIndices : units[k2] = <<>>
          /\ Len(metadata_dict) = SumLen(units, k - 1)
          /\ file = OldDocument
          /\ pc = "raised" => \E j \in Failed(k) : exc = units[k][j].raised)
  /\ [][FailedIndices # {} =>
          /\ metadata_dict' = metadata_dict
          /\ file' = file
          /\ i' = i
          /\ indices' = indices]_vars

\* the first unit returned a record and was collected, the second raised:
\* the run has ended with the exception, the record is in no dictionary
C24_Witness ==
  /\ pc = "raised"
  /\ i = 1
  /\ Len(indices) = 2
  /\ Len(units[1]) = 2
  /\ Failed(1) = {2}
  /\ metadata = <<units[1][1].result>>
  /\ metadata_dict = <<>>
  /\ file = OldDocument

\* the text holds a valid JSON object, from a "{" to a "}", and a "}"
\* somewhere after it
ObjectThenBrace(txt) ==
  \E a \in Opens(txt) : \E b \in Closes(txt) :
    /\ a < b
    /\ b < Max(Closes(txt))
    /\ json_loads(SubSeq(txt, a, b)).ok

\* the same, the object beginning at the first "{" of the text
FirstObjectThenBrace(txt) ==
  /\ Opens(txt) # {}
  /\ \E b \in Closes(txt) :
       /\ Min(Opens(txt)) < b
       /\ b < Max(Closes(txt))
       /\ json_loads(SubSeq(txt, Min(Opens(txt)), b)).ok

Terminated == pc \in {"dump", "done", "raised"}

\* C26: when every call of a service returns or raises in the end, the run
\* ends: generate_metadata_dictionary returns the dictionary or an exception
\* leaves it, whatever the number of indices and of fields and also with
\* more fields than workers; and for an index without fields process_index
\* returns the empty list with no unit submitted, hence no call of a service.
C26_RunTerminates ==
  /\ <>Terminated
  /\ []((pc \in {"submit", "collect", "shutdown", "return"}
         /\ fields_info = <<>>)
          => (units[i] = <<>> /\ queue[i] = <<>> /\ metadata = <<>>
              /\ exc = ""))

\* a run with one worker has ended after an index with two fields and an
\* index without fields
C26_Witness ==
  /\ pc = "done"
  /\ poolSize = 1
  /\ Len(indices) = 2
  /\ Len(units[1]) = 2
  /\ units[2] = <<>>
  /\ Len(metadata_dict) = 2

====
